---- MODULE Spec2Model ----
(***************************************************************************)
(* A model of the event collection and ingestion pipeline of hostai:       *)
(*   src/src/storage/database.py      StorageManager                       *)
(*   src/src/collectors/file_system.py FileSystemCollector and its handler *)
(*   src/src/collectors/base.py       DataCollector                        *)
(*   src/src/collectors/manager.py    CollectionManager                    *)
(* The storage engine is one sqlite3 connection: rows inserted through it  *)
(* are visible to it at once and become durable at its next commit().      *)
(***************************************************************************)
EXTENDS Integers, Sequences, FiniteSets, TLC

(* ---------------------------------------------------------------- bounds *)
\* largest timestamp value of the model (timestamps are 0..MaxTs)
MaxTs == 1
\* most rows the store holds over all its tables, hence also the longest batch
MaxRows == 2

(* ------------------------------------------------------------ vocabulary *)
\* Python's None and a given value, for optional arguments
None == << >>
Some(v) == << v >>
\* Python truthiness of an optional number: None and 0 are both falsy
Truthy(x) == x # None /\ x[1] # 0
\* Python truthiness of an optional string: None and "" are both falsy
TruthyText(x) == x # None /\ x[1] # ""

Timestamps == 0 .. MaxTs
\* time.time(): the clock read, which has advanced by the next reading (until
\* MaxTs, where it stays)
Tick(now) == IF now < MaxTs THEN now + 1 ELSE now
OptTimestamps == {None} \cup {Some(t) : t \in Timestamps}

\* the thread that runs the Controller, and the watchdog observer threads
MainThread == "main"
ObserverThreads == {"obs1", "obs2"}
Threads == {MainThread} \cup ObserverThreads

\* the three event tables of the schema, and an event_type that names none
Kinds == {"file_events", "app_events", "system_events"}
UnknownKind == "other_events"

\* A path is the sequence of the pieces of its string, cut finely enough that
\* one path string is a prefix of another exactly when its pieces are.
WatchedDir == << "/w" >>
IgnoreDir == << "/w", "/ignore" >>
PlainFile == << "/w", "/a", ".txt" >>
IgnoredFile == << "/w", "/ignore", "/b", ".txt" >>
RenamedFile == << "/w", "/c" >>
\* a directory under the watched one, not excluded
PlainDir == << "/w", "/sub" >>
\* "/w/ignore2/d.txt": beside the excluded directory, not under it
SiblingFile == << "/w", "/ignore", "2", "/d", ".txt" >>
Files == {PlainFile, IgnoredFile}

\* event dictionaries as the collectors build them (small value domains)
FileEvents ==
    { [timestamp |-> t, operation |-> "create", path |-> PlainFile,
       file_type |-> "txt", size |-> 10, app |-> ""] : t \in Timestamps }
AppEvents ==
    { [timestamp |-> t, app_name |-> "editor", window_title |-> "notes",
       focus_duration |-> 5, active |-> TRUE] : t \in Timestamps }
SystemEvents ==
    { [timestamp |-> t, cpu_percent |-> 50, memory_percent |-> 40,
       active_window |-> "editor", state |-> "active"] : t \in Timestamps }
\* all sequences over S of length 0..n
RECURSIVE SeqsUpTo(_, _)
SeqsUpTo(S, n) ==
    IF n = 0 THEN { << >> }
    ELSE LET shorter == SeqsUpTo(S, n - 1)
         IN shorter \cup { Append(s, x) : s \in { q \in shorter : Len(q) = n - 1 }, x \in S }

FileBatches == SeqsUpTo(FileEvents, MaxRows)
AppBatches == SeqsUpTo(AppEvents, MaxRows)
SystemBatches == SeqsUpTo(SystemEvents, MaxRows)
\* what a caller hands over under an event_type the store does not know
OtherBatches == { b \in FileBatches \cup AppBatches : Len(b) <= 1 }
Batches(kind) ==
    CASE kind = "file_events" -> FileBatches
      [] kind = "app_events" -> AppBatches
      [] kind = "system_events" -> SystemBatches
      [] OTHER -> OtherBatches

\* where a store_events call can raise: nowhere (0), at the insert of its k-th
\* record, or at the commit (Len + 1); an unknown kind attempts neither
FailPoints(events, kind) ==
    IF kind \in Kinds THEN 0 .. Len(events) + 1 ELSE {0}

VARIABLES
    conn,              \* StorageManager.conn is not None
    connOwner,         \* the thread that created the sqlite3 connection
    tables,            \* event_type -> rows the connection sees, in rowid order
    durable,           \* event_type -> rows committed to the database file
    paths,             \* FileSystemCollector.paths, the watched directories
    exclude_paths,     \* FileSystemCollector.exclude_paths
    monitored_events,  \* FileSystemCollector.monitored_events
    storage,           \* DataCollector.storage is not None
    is_running,        \* DataCollector.is_running
    observers,         \* FileSystemCollector.observers: handles, by number
    handles,           \* every Observer that was started: its path and state
    clock,             \* what time.time() returns to the handler next
    pc,                \* thread -> where it stands inside store_events
    calls,             \* thread -> the store_events calls it has made
    returned,          \* thread -> the values its calls returned, in order
    collector_configs, \* CollectionManager.collector_configs, in dict order
    collectors,        \* CollectionManager.collectors, in dict order
    stop_pc,           \* where the caller stands inside FileSystemCollector.stop()
    handling,          \* the Observers whose thread is inside a handler
    controller,        \* the ApplicationController and where main() stands
    last               \* the last call made on the API and what it returned

storeVars == << conn, connOwner, tables, durable >>
configVars == << paths, exclude_paths, monitored_events >>
lifecycleVars == << is_running, observers, handles >>
collectorVars == << paths, exclude_paths, monitored_events, storage,
                    is_running, observers, handles, clock >>
threadVars == << pc, calls, returned >>
managerVars == << collector_configs, collectors >>
drainVars == << stop_pc, handling >>
vars == << conn, connOwner, tables, durable, paths, exclude_paths,
           monitored_events, storage, is_running, observers, handles, clock,
           pc, calls, returned, collector_configs, collectors, stop_pc,
           handling, controller, last >>

\* ApplicationController.__init__: no storage yet, not running, and no
\* attribute collection_manager; enabled is data_collection.enabled of the
\* configuration it loaded
ApplicationController(enabled) ==
    [pc |-> "constructed", enabled |-> enabled,
     collection_manager |-> "absent", running |-> FALSE]

(* ------------------------------------------------------ StorageManager *)
\* the five tables _create_schema makes
Tables == Kinds \cup {"features", "models"}
EmptyTables == [k \in Tables |-> << >>]

TotalRows(t) == Len(t["file_events"]) + Len(t["app_events"]) + Len(t["system_events"])

\* the row one INSERT of store_events adds: the named columns bound from the
\* event dictionary, and the INTEGER PRIMARY KEY sqlite assigns (largest + 1)
FileRow(id, event) ==
    [id |-> id, timestamp |-> event.timestamp, operation |-> event.operation,
     path |-> event.path, file_type |-> event.file_type, size |-> event.size,
     app |-> event.app]
AppRow(id, event) ==
    [id |-> id, timestamp |-> event.timestamp, app_name |-> event.app_name,
     window_title |-> event.window_title, focus_duration |-> event.focus_duration,
     active |-> event.active]
SystemRow(id, event) ==
    [id |-> id, timestamp |-> event.timestamp, cpu_percent |-> event.cpu_percent,
     memory_percent |-> event.memory_percent, active_window |-> event.active_window,
     state |-> event.state]
InsertRow(kind, id, event) ==
    CASE kind = "file_events" -> FileRow(id, event)
      [] kind = "app_events" -> AppRow(id, event)
      [] kind = "system_events" -> SystemRow(id, event)

\* the table after the first n events of the batch were inserted
RECURSIVE InsertAll(_, _, _, _)
InsertAll(kind, rows, events, n) ==
    IF n = 0 THEN rows
    ELSE LET sofar == InsertAll(kind, rows, events, n - 1)
         IN Append(sofar, InsertRow(kind, Len(sofar) + 1, events[n]))

\* conn.commit(): everything the connection inserted becomes durable
Commit(view, dur) == view

\* __init__: no connection yet
StorageInit ==
    /\ conn = FALSE
    /\ connOwner = MainThread
    /\ tables = EmptyTables
    /\ durable = EmptyTables

\* initialize(): sqlite3.connect and CREATE TABLE IF NOT EXISTS. A connection
\* that is replaced is closed, which rolls its open transaction back.
initialize(t, ok) ==
    /\ IF ok
       THEN /\ conn' = TRUE
            /\ connOwner' = t
            /\ tables' = durable
            /\ durable' = durable
       ELSE UNCHANGED storeVars
    /\ UNCHANGED collectorVars
    /\ UNCHANGED threadVars
    /\ UNCHANGED managerVars
    /\ UNCHANGED << drainVars, controller >>
    /\ last' = [op |-> "initialize", thread |-> t, result |-> ok]

store_eventsMutantUnknownCommits(db, t, events, event_type, failAt) ==
    IF ~conn \/ t # connOwner THEN
        [tables |-> db.tables, durable |-> db.durable, result |-> FALSE]
    ELSE
        LET n == IF event_type \notin Kinds THEN 0
                 ELSE IF failAt \in 1 .. Len(events) THEN failAt - 1 ELSE Len(events)
            view == IF n = 0 THEN db.tables
                    ELSE [db.tables EXCEPT ![event_type] =
                            InsertAll(event_type, db.tables[event_type], events, n)]
        IN  [tables |-> view,
             durable |-> IF failAt = 0 THEN Commit(view, db.durable) ELSE db.durable,
             result |-> event_type \in Kinds /\ failAt = 0]
\* store_events(events, event_type), called on thread t, on the store db =
\* [tables, durable]: the store it leaves and the value it returns.
\* failAt = 0: nothing raises; 1..Len(events): the insert of that record
\* raises (a missing key, an sqlite error); Len(events)+1: commit() raises.
\* The except clause returns False and rolls nothing back.
store_events(db, t, events, event_type, failAt) ==
    IF ~conn THEN
        [tables |-> db.tables, durable |-> db.durable, result |-> FALSE]
    ELSE IF t # connOwner THEN
        \* conn.cursor() raises ProgrammingError off the creating thread
        [tables |-> db.tables, durable |-> db.durable, result |-> FALSE]
    ELSE IF event_type \notin Kinds THEN
        [tables |-> db.tables, durable |-> db.durable, result |-> FALSE]
    ELSE
        LET n == IF failAt \in 1 .. Len(events) THEN failAt - 1 ELSE Len(events)
            view == [db.tables EXCEPT ![event_type] =
                        InsertAll(event_type, db.tables[event_type], events, n)]
        IN  [tables |-> view,
             durable |-> IF failAt = 0 THEN Commit(view, db.durable) ELSE db.durable,
             result |-> failAt = 0]

Db == [tables |-> tables, durable |-> durable]

\* a caller's store_events call
StoreEventsCall(t, events, event_type, failAt) ==
    LET out == store_events(Db, t, events, event_type, failAt)
    IN  /\ tables' = out.tables
        /\ durable' = out.durable
        /\ UNCHANGED << conn, connOwner >>
        /\ UNCHANGED collectorVars
        /\ UNCHANGED threadVars
        /\ UNCHANGED managerVars
        /\ UNCHANGED << drainVars, controller >>
        /\ last' = [op |-> "store_events", thread |-> t, events |-> events,
                    event_type |-> event_type, result |-> out.result]

\* the WHERE clause get_events builds from its optional bounds
Where(row, start_time, end_time) ==
    /\ Truthy(start_time) => row.timestamp >= start_time[1]
    /\ Truthy(end_time) => row.timestamp <= end_time[1]

SelectWhere(rows, start_time, end_time) ==
    SelectSeq(rows, LAMBDA r : Where(r, start_time, end_time))

IsAscending(rows) ==
    \A i, j \in 1 .. Len(rows) : i < j => rows[i].timestamp <= rows[j].timestamp

\* ORDER BY timestamp ASC: every arrangement of the rows that ascends (SQL
\* leaves the order of equal timestamps open)
OrderByMutantRowid(rows) == { rows }
OrderByTimestamp(rows) ==
    { [i \in 1 .. Len(rows) |-> rows[p[i]]] :
        p \in { q \in [1 .. Len(rows) -> 1 .. Len(rows)] :
                  /\ \A i, j \in 1 .. Len(rows) : i # j => q[i] # q[j]
                  /\ \A i, j \in 1 .. Len(rows) :
                        i < j => rows[q[i]].timestamp <= rows[q[j]].timestamp } }

\* get_events(event_type, start_time, end_time), called on thread t; each row
\* comes back as a dictionary of all its columns (SELECT *), id included
get_events(t, event_type, start_time, end_time) ==
    LET ret(r) == [op |-> "get_events", thread |-> t, event_type |-> event_type,
                   start_time |-> start_time, end_time |-> end_time, result |-> r]
    IN
    /\ UNCHANGED storeVars
    /\ UNCHANGED collectorVars
    /\ UNCHANGED threadVars
    /\ UNCHANGED managerVars
    /\ UNCHANGED << drainVars, controller >>
    /\ IF ~conn \/ t # connOwner \/ event_type \notin Kinds
       THEN last' = ret(<< >>)
       ELSE \E r \in OrderByTimestamp(SelectWhere(tables[event_type], start_time, end_time)) :
                last' = ret(r)

(* ------------------------------- StorageManager: features and models *)
\* json.dumps of a value and json.loads of the text: a tuple is written as a
\* JSON array and comes back as a list
JsonDumps(v) == [json |-> IF v.type = "tuple" THEN [v EXCEPT !.type = "list"] ELSE v]
JsonLoads(text) == text.json

\* the features a caller hands to store_features, and their types
FeatureValues == { [type |-> "list", items |-> 1], [type |-> "tuple", items |-> 1] }
FeatureTypes == {"", "usage"}
OptFeatureTypes == {None} \cup {Some(f) : f \in FeatureTypes}

\* store_features(features, feature_type) on thread t, at clock reading now, on
\* the store db. failAt = 0: nothing raises; 1: json.dumps, cursor() or the
\* INSERT raises; 2: commit() raises, the row left pending.
store_features(db, t, now, features, feature_type, failAt) ==
    IF ~conn THEN
        [tables |-> db.tables, durable |-> db.durable, result |-> FALSE]
    ELSE IF t # connOwner \/ failAt = 1 THEN
        [tables |-> db.tables, durable |-> db.durable, result |-> FALSE]
    ELSE
        LET row == [id |-> Len(db.tables["features"]) + 1,
                    timestamp |-> now,
                    feature_type |-> feature_type,
                    feature_data |-> JsonDumps(features)]
            view == [db.tables EXCEPT !["features"] = Append(@, row)]
        IN  [tables |-> view,
             durable |-> IF failAt = 0 THEN Commit(view, db.durable) ELSE db.durable,
             result |-> failAt = 0]

IsDescending(rows) ==
    \A i, j \in 1 .. Len(rows) : i < j => rows[i].timestamp >= rows[j].timestamp

\* ORDER BY timestamp DESC: every arrangement of the rows that descends
OrderByTimestampDesc(rows) ==
    { [i \in 1 .. Len(rows) |-> rows[p[i]]] :
        p \in { q \in [1 .. Len(rows) -> 1 .. Len(rows)] :
                  /\ \A i, j \in 1 .. Len(rows) : i # j => q[i] # q[j]
                  /\ \A i, j \in 1 .. Len(rows) :
                        i < j => rows[q[i]].timestamp >= rows[q[j]].timestamp } }

\* LIMIT ?: the first n rows; sqlite reads a negative LIMIT as no limit
Limit(rows, n) ==
    IF n < 0 \/ n >= Len(rows) THEN rows ELSE SubSeq(rows, 1, n)

\* the dictionary get_features makes of a row: feature_data parsed back
FeatureRecord(row) == [row EXCEPT !.feature_data = JsonLoads(@)]

\* get_features(feature_type, limit) on thread t
get_features(t, feature_type, limit) ==
    LET ret(r) == [op |-> "get_features", thread |-> t, feature_type |-> feature_type,
                   limit |-> limit, result |-> r]
        matching == SelectSeq(tables["features"],
                        LAMBDA r : TruthyText(feature_type) => r.feature_type = feature_type[1])
    IN
    /\ UNCHANGED storeVars
    /\ UNCHANGED collectorVars
    /\ UNCHANGED threadVars
    /\ UNCHANGED managerVars
    /\ UNCHANGED << drainVars, controller >>
    /\ IF ~conn \/ t # connOwner
       THEN last' = ret(<< >>)
       ELSE \E r \in OrderByTimestampDesc(matching) :
                last' = ret([i \in 1 .. Len(Limit(r, limit)) |-> FeatureRecord(r[i])])

\* model names and versions, and the metrics dictionary of store_model: none,
\* an empty one, or one with an entry
ModelNames == {"x", "y"}
Versions == {"", "v1"}
OptVersions == {None} \cup {Some(v) : v \in Versions}
Metrics == {None, Some(<< >>), Some(<< "acc" >>)}

\* json.dumps(metrics) if metrics else None
MetricsJson(metrics) ==
    IF metrics # None /\ metrics[1] # << >>
    THEN Some(JsonDumps([type |-> "dict", items |-> metrics[1]]))
    ELSE None

\* the models table after the INSERT of store_model
InsertModelMutantReplaces(rows, name, version, now, metrics) ==
    Append(SelectSeq(rows, LAMBDA r : ~(r.name = name /\ r.version = version)),
           [id |-> Len(rows) + 1, name |-> name, version |-> version,
            created_at |-> now, model_type |-> "clf",
            serialized_model |-> "blob",
            performance_metrics |-> MetricsJson(metrics)])
InsertModel(rows, name, version, now, metrics) ==
    Append(rows, [id |-> Len(rows) + 1, name |-> name, version |-> version,
                  created_at |-> now, model_type |-> "clf",
                  serialized_model |-> "blob",
                  performance_metrics |-> MetricsJson(metrics)])

store_modelMutantNoConnGuard(db, t, now, name, version, metrics, failAt) ==
    LET view == [db.tables EXCEPT !["models"] =
                    InsertModel(@, name, version, now, metrics)]
    IN  [tables |-> view, durable |-> Commit(view, db.durable), result |-> TRUE]

\* store_model(name, version, model_type, serialized_model, metrics) on thread
\* t, at clock reading now. failAt as for store_features.
store_model(db, t, now, name, version, metrics, failAt) ==
    IF ~conn THEN
        [tables |-> db.tables, durable |-> db.durable, result |-> FALSE]
    ELSE IF t # connOwner \/ failAt = 1 THEN
        [tables |-> db.tables, durable |-> db.durable, result |-> FALSE]
    ELSE
        LET view == [db.tables EXCEPT !["models"] =
                        InsertModel(@, name, version, now, metrics)]
        IN  [tables |-> view,
             durable |-> IF failAt = 0 THEN Commit(view, db.durable) ELSE db.durable,
             result |-> failAt = 0]

\* a caller's store_features or store_model call: the store it leaves, the
\* clock read once when a row was built
StoreCall(op, t, args, out) ==
    /\ tables' = out.tables
    /\ durable' = out.durable
    /\ clock' = IF out.tables # tables THEN Tick(clock) ELSE clock
    /\ UNCHANGED << conn, connOwner >>
    /\ UNCHANGED << paths, exclude_paths, monitored_events, storage,
                    is_running, observers, handles >>
    /\ UNCHANGED threadVars
    /\ UNCHANGED managerVars
    /\ UNCHANGED << drainVars, controller >>
    /\ last' = [op |-> op, thread |-> t, args |-> args, result |-> out.result]

\* the rows of the models table the query of get_model selects: those of the
\* name, and of the version when one is given (and not empty); without a
\* version, those created last among them (ORDER BY created_at DESC LIMIT 1)
ModelRows(rows, name, version) ==
    LET named == { i \in 1 .. Len(rows) : rows[i].name = name }
    IN  IF TruthyText(version)
        THEN { rows[i] : i \in { j \in named : rows[j].version = version[1] } }
        ELSE { rows[i] : i \in { j \in named :
                                   \A k \in named : rows[k].created_at <= rows[j].created_at } }

\* the dictionary get_model makes of a row: performance_metrics parsed back
ModelRecord(row) ==
    [row EXCEPT !.performance_metrics =
        IF @ # None THEN Some(JsonLoads(@[1])) ELSE None]

\* get_model(name, version) on thread t: a record, or None
get_model(t, name, version) ==
    LET ret(r) == [op |-> "get_model", thread |-> t, name |-> name,
                   version |-> version, result |-> r]
    IN
    /\ UNCHANGED storeVars
    /\ UNCHANGED collectorVars
    /\ UNCHANGED threadVars
    /\ UNCHANGED managerVars
    /\ UNCHANGED << drainVars, controller >>
    /\ IF ~conn \/ t # connOwner \/ ModelRows(tables["models"], name, version) = {}
       THEN last' = ret(None)
       ELSE \E row \in ModelRows(tables["models"], name, version) :
                last' = ret(Some(ModelRecord(row)))

(* ------------------------------------------------- FileSystemCollector *)
\* config.get("events", ["create", "modify", "delete"])
DefaultEvents == {"create", "modify", "delete"}

\* __init__ of DataCollector and FileSystemCollector, from the configuration;
\* no thread is inside the store and no collection manager has been made
CollectorInit(ps, excl, events) ==
    /\ paths = ps
    /\ exclude_paths = excl
    /\ monitored_events = events
    /\ storage = FALSE
    /\ is_running = FALSE
    /\ observers = << >>
    /\ handles = << >>
    /\ clock = 0
    /\ pc = [t \in Threads |-> "idle"]
    /\ calls = [t \in Threads |-> 0]
    /\ returned = [t \in Threads |-> << >>]
    /\ collector_configs = << >>
    /\ collectors = << >>
    /\ stop_pc = "idle"
    /\ handling = {}
    /\ controller = ApplicationController(FALSE)

Collector == [is_running |-> is_running, observers |-> observers, handles |-> handles]

\* observer.stop() on the first n observers of the list
StopFirst(hs, obs, n) ==
    [h \in 1 .. Len(hs) |->
        IF (\E i \in 1 .. n : obs[i] = h) /\ hs[h].state = "running"
        THEN [hs[h] EXCEPT !.state = "stopped"] ELSE hs[h]]

\* observer.join() on the first n observers of the list
JoinFirstMutantNoJoin(hs, obs, n) == hs
JoinFirst(hs, obs, n) ==
    [h \in 1 .. Len(hs) |->
        IF \E i \in 1 .. n : obs[i] = h
        THEN [hs[h] EXCEPT !.state = "joined"] ELSE hs[h]]

\* stop() on the collector c: the collector it leaves and the value it
\* returns. failAt = 0: nothing raises; k in 1..n: the k-th observer.stop()
\* raises; n+k: the k-th observer.join() raises (n = Len(observers)).
stopMutantStoppedFails(c, failAt) ==
    [is_running |-> FALSE, observers |-> << >>,
     handles |-> JoinFirst(StopFirst(c.handles, c.observers, Len(c.observers)),
                           c.observers, Len(c.observers)),
     result |-> c.is_running]
stop(c, failAt) ==
    LET n == Len(c.observers) IN
    IF ~c.is_running THEN
        [is_running |-> c.is_running, observers |-> c.observers,
         handles |-> c.handles, result |-> TRUE]
    ELSE IF failAt = 0 THEN
        [is_running |-> FALSE, observers |-> << >>,
         handles |-> JoinFirst(StopFirst(c.handles, c.observers, n), c.observers, n),
         result |-> TRUE]
    ELSE IF failAt <= n THEN
        [is_running |-> c.is_running, observers |-> c.observers,
         handles |-> StopFirst(c.handles, c.observers, failAt - 1),
         result |-> FALSE]
    ELSE
        [is_running |-> c.is_running, observers |-> c.observers,
         handles |-> JoinFirst(StopFirst(c.handles, c.observers, n),
                               c.observers, failAt - n - 1),
         result |-> FALSE]

\* the collector after the loop of start() created and started an Observer for
\* each of the first n paths
WithObservers(c, n) ==
    [is_running |-> c.is_running,
     observers |-> c.observers \o [i \in 1 .. n |-> Len(c.handles) + i],
     handles |-> c.handles \o [i \in 1 .. n |-> [path |-> paths[i], state |-> "running"]]]

\* start() on the collector c. failAt = 0: nothing raises; k in 1..Len(paths):
\* creating or starting the Observer of the k-th path raises, and the except
\* clause calls stop() and returns False.
startMutantNoGuard(c, failAt) ==
    LET all == WithObservers(c, Len(paths))
    IN  [is_running |-> TRUE, observers |-> all.observers,
         handles |-> all.handles, result |-> TRUE]
start(c, failAt) ==
    IF c.is_running THEN
        [is_running |-> c.is_running, observers |-> c.observers,
         handles |-> c.handles, result |-> TRUE]
    ELSE IF failAt = 0 THEN
        LET all == WithObservers(c, Len(paths))
        IN  [is_running |-> TRUE, observers |-> all.observers,
             handles |-> all.handles, result |-> TRUE]
    ELSE
        LET cleaned == stop(WithObservers(c, failAt - 1), 0)
        IN  [is_running |-> cleaned.is_running, observers |-> cleaned.observers,
             handles |-> cleaned.handles, result |-> FALSE]

\* a caller's start() and stop()
Lifecycle(op, out) ==
    /\ is_running' = out.is_running
    /\ observers' = out.observers
    /\ handles' = out.handles
    /\ UNCHANGED << paths, exclude_paths, monitored_events, storage, clock >>
    /\ UNCHANGED storeVars
    /\ UNCHANGED threadVars
    /\ UNCHANGED managerVars
    /\ UNCHANGED << drainVars, controller >>
    /\ last' = [op |-> op, was_running |-> is_running, result |-> out.result]

StartCall(failAt) == Lifecycle("start", start(Collector, failAt))
StopCall(failAt) == Lifecycle("stop", stop(Collector, failAt))

\* set_storage(storage), by the collection manager
set_storage ==
    /\ storage' = TRUE
    /\ UNCHANGED << paths, exclude_paths, monitored_events, is_running, observers,
                    handles, clock >>
    /\ UNCHANGED storeVars
    /\ UNCHANGED threadVars
    /\ UNCHANGED managerVars
    /\ UNCHANGED << drainVars, controller >>
    /\ last' = [op |-> "set_storage"]

\* the Observers whose thread is alive
LiveHandles(hs) == { h \in 1 .. Len(hs) : hs[h].state # "joined" }

(* --------------------------------------------- FileSystemEventProcessor *)
\* str.startswith on two path strings
IsPrefix(p, q) == Len(p) <= Len(q) /\ SubSeq(q, 1, Len(p)) = p

\* is_path_excluded(path)
is_path_excludedMutantBySegment(path) ==
    \E i \in 1 .. Len(exclude_paths) :
        /\ IsPrefix(exclude_paths[i], path)
        /\ Len(path) > Len(exclude_paths[i]) => path[Len(exclude_paths[i]) + 1] # "2"
is_path_excluded(path) ==
    \E i \in 1 .. Len(exclude_paths) : IsPrefix(exclude_paths[i], path)

\* path.suffix[1:] if path.suffix else ""
FileType(path) == IF path[Len(path)] = ".txt" THEN "txt" ELSE ""

\* what the filesystem answers to path.exists() and path.stat() at
\* notification time: the file is gone, or it vanishes between the two calls
\* (stat raises), or it is there with its size
StatResults ==
    { [exists |-> FALSE, raises |-> FALSE, size |-> 0],
      [exists |-> TRUE, raises |-> TRUE, size |-> 0],
      [exists |-> TRUE, raises |-> FALSE, size |-> 10] }

\* _process_event(file_path, operation) on thread t, on the store and clock
\* env = [tables, durable, clock]: what it leaves of them and the store_events
\* calls it made
_process_eventMutantStoresUnbound(env, t, file_path, operation, stat, failAt) ==
    IF is_path_excluded(file_path) THEN
        [tables |-> env.tables, durable |-> env.durable, clock |-> env.clock,
         calls |-> << >>]
    ELSE IF operation # "delete" /\ stat.exists /\ stat.raises THEN
        \* the except clause logs and drops the event
        [tables |-> env.tables, durable |-> env.durable, clock |-> env.clock,
         calls |-> << >>]
    ELSE
        LET event == [timestamp |-> env.clock,
                      operation |-> operation,
                      path |-> file_path,
                      file_type |-> FileType(file_path),
                      size |-> IF operation # "delete" /\ stat.exists
                               THEN stat.size ELSE 0,
                      app |-> ""]
        IN  IF FALSE THEN
                [tables |-> env.tables, durable |-> env.durable,
                 clock |-> Tick(env.clock), calls |-> << >>]
            ELSE
                LET out == store_events(env, t, << event >>, "file_events", failAt)
                IN  [tables |-> out.tables, durable |-> out.durable,
                     clock |-> Tick(env.clock),
                     calls |-> << [events |-> << event >>,
                                   event_type |-> "file_events",
                                   result |-> out.result] >>]
_process_eventMutantStatsDelete(env, t, file_path, operation, stat, failAt) ==
    IF is_path_excluded(file_path) THEN
        [tables |-> env.tables, durable |-> env.durable, clock |-> env.clock,
         calls |-> << >>]
    ELSE IF stat.exists /\ stat.raises THEN
        \* the except clause logs and drops the event
        [tables |-> env.tables, durable |-> env.durable, clock |-> env.clock,
         calls |-> << >>]
    ELSE
        LET event == [timestamp |-> env.clock,
                      operation |-> operation,
                      path |-> file_path,
                      file_type |-> FileType(file_path),
                      size |-> IF stat.exists
                               THEN stat.size ELSE 0,
                      app |-> ""]
        IN  IF ~storage THEN
                [tables |-> env.tables, durable |-> env.durable,
                 clock |-> Tick(env.clock), calls |-> << >>]
            ELSE
                LET out == store_events(env, t, << event >>, "file_events", failAt)
                IN  [tables |-> out.tables, durable |-> out.durable,
                     clock |-> Tick(env.clock),
                     calls |-> << [events |-> << event >>,
                                   event_type |-> "file_events",
                                   result |-> out.result] >>]
_process_eventMutantRetries(env, t, file_path, operation, stat, failAt) ==
    IF is_path_excluded(file_path) THEN
        [tables |-> env.tables, durable |-> env.durable, clock |-> env.clock,
         calls |-> << >>]
    ELSE IF operation # "delete" /\ stat.exists /\ stat.raises THEN
        \* the except clause logs and drops the event
        [tables |-> env.tables, durable |-> env.durable, clock |-> env.clock,
         calls |-> << >>]
    ELSE
        LET event == [timestamp |-> env.clock,
                      operation |-> operation,
                      path |-> file_path,
                      file_type |-> FileType(file_path),
                      size |-> IF operation # "delete" /\ stat.exists
                               THEN stat.size ELSE 0,
                      app |-> ""]
        IN  IF ~storage THEN
                [tables |-> env.tables, durable |-> env.durable,
                 clock |-> Tick(env.clock), calls |-> << >>]
            ELSE
                LET out == store_events(env, t, << event >>, "file_events", failAt)
                    again == store_events(out, t, << event >>, "file_events", 0)
                    call(r) == [events |-> << event >>, event_type |-> "file_events",
                                result |-> r]
                IN  IF out.result
                    THEN [tables |-> out.tables, durable |-> out.durable,
                          clock |-> Tick(env.clock), calls |-> << call(TRUE) >>]
                    ELSE [tables |-> again.tables, durable |-> again.durable,
                          clock |-> Tick(env.clock),
                          calls |-> << call(FALSE), call(again.result) >>]
_process_event(env, t, file_path, operation, stat, failAt) ==
    IF is_path_excluded(file_path) THEN
        [tables |-> env.tables, durable |-> env.durable, clock |-> env.clock,
         calls |-> << >>]
    ELSE IF operation # "delete" /\ stat.exists /\ stat.raises THEN
        \* the except clause logs and drops the event
        [tables |-> env.tables, durable |-> env.durable, clock |-> env.clock,
         calls |-> << >>]
    ELSE
        LET event == [timestamp |-> env.clock,
                      operation |-> operation,
                      path |-> file_path,
                      file_type |-> FileType(file_path),
                      size |-> IF operation # "delete" /\ stat.exists
                               THEN stat.size ELSE 0,
                      app |-> ""]
        IN  IF ~storage THEN
                [tables |-> env.tables, durable |-> env.durable,
                 clock |-> Tick(env.clock), calls |-> << >>]
            ELSE
                LET out == store_events(env, t, << event >>, "file_events", failAt)
                IN  [tables |-> out.tables, durable |-> out.durable,
                     clock |-> Tick(env.clock),
                     calls |-> << [events |-> << event >>,
                                   event_type |-> "file_events",
                                   result |-> out.result] >>]

Env == [tables |-> tables, durable |-> durable, clock |-> clock]
NoCalls == [tables |-> tables, durable |-> durable, clock |-> clock, calls |-> << >>]

\* on_created(event)
on_created(t, e, stat, failAt) ==
    IF e.is_directory THEN NoCalls
    ELSE _process_event(Env, t, e.src_path, "create", stat, failAt)

\* on_modified(event)
on_modified(t, e, stat, failAt) ==
    IF e.is_directory THEN NoCalls
    ELSE IF "modify" \notin monitored_events THEN NoCalls
    ELSE _process_event(Env, t, e.src_path, "modify", stat, failAt)

\* on_deleted(event)
on_deleted(t, e, stat, failAt) ==
    IF e.is_directory THEN NoCalls
    ELSE IF "delete" \notin monitored_events THEN NoCalls
    ELSE _process_event(Env, t, e.src_path, "delete", stat, failAt)

\* on_moved(event): a delete of the source, then a create of the destination
on_movedMutantDirectories(t, e, stat, failAt, failAt2) ==
    IF "move" \notin monitored_events THEN NoCalls
    ELSE
        LET first == _process_event(Env, t, e.src_path, "delete", stat, failAt)
            second == _process_event(first, t, e.dest_path, "create", stat, failAt2)
        IN  [tables |-> second.tables, durable |-> second.durable,
             clock |-> second.clock, calls |-> first.calls \o second.calls]
on_movedMutantSourceDecides(t, e, stat, failAt, failAt2) ==
    IF e.is_directory \/ "move" \notin monitored_events
       \/ is_path_excluded(e.src_path)
    THEN NoCalls
    ELSE
        LET first == _process_event(Env, t, e.src_path, "delete", stat, failAt)
            second == _process_event(first, t, e.dest_path, "create", stat, failAt2)
        IN  [tables |-> second.tables, durable |-> second.durable,
             clock |-> second.clock, calls |-> first.calls \o second.calls]
on_moved(t, e, stat, failAt, failAt2) ==
    IF e.is_directory THEN NoCalls
    ELSE IF "move" \notin monitored_events THEN NoCalls
    ELSE
        LET first == _process_event(Env, t, e.src_path, "delete", stat, failAt)
            second == _process_event(first, t, e.dest_path, "create", stat, failAt2)
        IN  [tables |-> second.tables, durable |-> second.durable,
             clock |-> second.clock, calls |-> first.calls \o second.calls]

\* the watchdog events of a notification: a file or a directory at src_path
\* (for a move, taken to dest_path)
FileSystemEvents ==
    { [is_directory |-> FALSE, src_path |-> s, dest_path |-> s] :
        s \in Files \cup {SiblingFile} }
    \cup { [is_directory |-> TRUE, src_path |-> PlainDir, dest_path |-> PlainDir] }
FileSystemMovedEvents ==
    { [is_directory |-> FALSE, src_path |-> s, dest_path |-> p] :
        s \in Files, p \in Files \cup {RenamedFile} }
    \cup { [is_directory |-> TRUE, src_path |-> PlainDir, dest_path |-> RenamedFile] }

\* a notification delivered to the handler on thread t
Notification(op, t, e, stat, out) ==
    /\ tables' = out.tables
    /\ durable' = out.durable
    /\ clock' = out.clock
    /\ UNCHANGED << conn, connOwner >>
    /\ UNCHANGED << paths, exclude_paths, monitored_events, storage,
                    is_running, observers, handles >>
    /\ UNCHANGED threadVars
    /\ UNCHANGED managerVars
    /\ UNCHANGED << drainVars, controller >>
    /\ last' = [op |-> op, thread |-> t, event |-> e, stat |-> stat, calls |-> out.calls]

\* the threads a notification can arrive on: the thread of a running Observer,
\* or the caller's own when it invokes the handler directly
NotifyThreads ==
    {MainThread} \cup
        (IF \E h \in 1 .. Len(handles) : handles[h].state = "running"
         THEN {"obs1"} ELSE {})

(* ------------------------------------------- specification: the store *)
Init ==
    /\ StorageInit
    /\ CollectorInit(<< WatchedDir >>, << >>, DefaultEvents)
    /\ last = [op |-> "init"]

Initialize == \E ok \in BOOLEAN : initialize(MainThread, ok)

StoreEvents ==
    \E k \in Kinds \cup {UnknownKind} :
        \E events \in Batches(k) :
            \E failAt \in FailPoints(events, k) :
                /\ k \in Kinds => TotalRows(tables) + Len(events) <= MaxRows
                /\ StoreEventsCall(MainThread, events, k, failAt)

\* get_events with neither bound given
GetAllEvents ==
    \E k \in Kinds \cup {UnknownKind} : get_events(MainThread, k, None, None)

Next == Initialize \/ StoreEvents \/ GetAllEvents

Spec == Init /\ [][Next]_vars

(* ----------------------------------- specification: queries by time range *)
StoreBatch ==
    \E k \in Kinds :
        \E events \in Batches(k) :
            /\ TotalRows(tables) + Len(events) <= MaxRows
            /\ StoreEventsCall(MainThread, events, k, 0)

GetEvents ==
    \E k \in Kinds :
        \E s \in OptTimestamps, e \in OptTimestamps :
            get_events(MainThread, k, s, e)

NextQuery == Initialize \/ StoreBatch \/ GetEvents

SpecQuery == Init /\ [][NextQuery]_vars

(* ------------------------------- specification: the collector lifecycle *)
\* most watched directories of a configuration
MaxPaths == 2
\* most Observers one collector creates over its life
MaxHandles == 4

WatchLists == { [i \in 1 .. n |-> WatchedDir \o << i >>] : n \in 1 .. MaxPaths }

InitLifecycle ==
    /\ StorageInit
    /\ \E ps \in WatchLists : CollectorInit(ps, << >>, DefaultEvents)
    /\ last = [op |-> "init"]

Start ==
    \E failAt \in 0 .. Len(paths) :
        /\ is_running \/ Len(handles) + Len(paths) <= MaxHandles
        /\ StartCall(failAt)

Stop == \E failAt \in 0 .. 2 * Len(observers) : StopCall(failAt)

NextLifecycle == Start \/ Stop \/ set_storage

SpecLifecycle == InitLifecycle /\ [][NextLifecycle]_vars

(* ------------------------------------ specification: file notifications *)
EventLists == {DefaultEvents, DefaultEvents \cup {"move"}, {"move"}}
ExcludeLists == { << IgnoreDir >> }

\* the store was initialized on the main thread, and the collector made from
\* its configuration was started: it watches its one directory
InitNotify ==
    /\ conn = TRUE
    /\ connOwner = MainThread
    /\ tables = EmptyTables
    /\ durable = EmptyTables
    /\ \E events \in EventLists, excl \in ExcludeLists :
          /\ paths = << WatchedDir >>
          /\ exclude_paths = excl
          /\ monitored_events = events
    /\ storage = FALSE
    /\ is_running = TRUE
    /\ observers = << 1 >>
    /\ handles = << [path |-> WatchedDir, state |-> "running"] >>
    /\ clock = 0
    /\ pc = [t \in Threads |-> "idle"]
    /\ calls = [t \in Threads |-> 0]
    /\ returned = [t \in Threads |-> << >>]
    /\ collector_configs = << >>
    /\ collectors = << >>
    /\ stop_pc = "idle"
    /\ handling = {}
    /\ controller = ApplicationController(FALSE)
    /\ last = [op |-> "init"]

\* the inputs a handler reads: none for a directory or an excluded path; at a
\* delete the path is gone or a new file is there already, and no stat is
\* made; its store_events call can raise only where it runs
Gone == [exists |-> FALSE, raises |-> FALSE, size |-> 0]
Present == [exists |-> TRUE, raises |-> FALSE, size |-> 10]
StatsFor(e, op) ==
    IF e.is_directory \/ is_path_excluded(e.dest_path) THEN {Gone}
    ELSE IF op = "delete" THEN {Gone, Present}
    ELSE StatResults
HandlerFailPoints(t, e, path) ==
    IF e.is_directory \/ ~storage \/ t # connOwner \/ is_path_excluded(path)
    THEN {0} ELSE 0 .. 2

OnCreated ==
    \E t \in NotifyThreads, e \in FileSystemEvents :
        \E stat \in StatsFor(e, "create"), failAt \in HandlerFailPoints(t, e, e.src_path) :
            /\ TotalRows(tables) + 1 <= MaxRows
            /\ Notification("on_created", t, e, stat, on_created(t, e, stat, failAt))

OnModified ==
    \E t \in NotifyThreads, e \in FileSystemEvents :
        \E stat \in StatsFor(e, "modify"), failAt \in HandlerFailPoints(t, e, e.src_path) :
            /\ TotalRows(tables) + 1 <= MaxRows
            /\ Notification("on_modified", t, e, stat, on_modified(t, e, stat, failAt))

OnDeleted ==
    \E t \in NotifyThreads, e \in FileSystemEvents :
        \E stat \in StatsFor(e, "delete"), failAt \in HandlerFailPoints(t, e, e.src_path) :
            /\ TotalRows(tables) + 1 <= MaxRows
            /\ Notification("on_deleted", t, e, stat, on_deleted(t, e, stat, failAt))

OnMoved ==
    \E t \in NotifyThreads, e \in FileSystemMovedEvents :
        \E stat \in StatsFor(e, "create"),
           failAt \in HandlerFailPoints(t, e, e.src_path),
           failAt2 \in HandlerFailPoints(t, e, e.dest_path) :
            /\ e.src_path # e.dest_path
            /\ TotalRows(tables) + 2 <= MaxRows
            /\ Notification("on_moved", t, e, stat,
                            on_moved(t, e, stat, failAt, failAt2))

NextNotify ==
    \/ set_storage
    \/ OnCreated
    \/ OnModified
    \/ OnDeleted
    \/ OnMoved

SpecNotify == InitNotify /\ [][NextNotify]_vars

(* ------------------- specification: store_events called on several threads *)
\* most store_events calls one thread makes
MaxCalls == 2

\* the one-record batch a handler hands over
OneRecordBatches == { << e >> : e \in FileEvents }

\* store_events up to conn.cursor(): without a connection, and on a thread
\* other than the one that made the connection (cursor() raises), the call
\* returns False at once; otherwise the thread goes on to its INSERT
BeginStore(t) ==
    /\ pc[t] = "idle"
    /\ calls[t] < MaxCalls
    /\ calls' = [calls EXCEPT ![t] = @ + 1]
    /\ IF ~conn \/ t # connOwner
       THEN /\ returned' = [returned EXCEPT ![t] = Append(@, FALSE)]
            /\ pc' = pc
            /\ last' = [op |-> "store_events", thread |-> t, result |-> FALSE]
       ELSE /\ returned' = returned
            /\ pc' = [pc EXCEPT ![t] = "insert"]
            /\ last' = last
    /\ UNCHANGED storeVars
    /\ UNCHANGED collectorVars
    /\ UNCHANGED managerVars
    /\ UNCHANGED << drainVars, controller >>

\* cursor.execute(INSERT ...) of the call's one record
InsertStep(t) ==
    /\ pc[t] = "insert"
    /\ \E events \in OneRecordBatches :
          tables' = [tables EXCEPT !["file_events"] =
                        InsertAll("file_events", @, events, 1)]
    /\ pc' = [pc EXCEPT ![t] = "commit"]
    /\ UNCHANGED << conn, connOwner, durable, calls, returned, last >>
    /\ UNCHANGED collectorVars
    /\ UNCHANGED managerVars
    /\ UNCHANGED << drainVars, controller >>

\* conn.commit() and return True
CommitStep(t) ==
    /\ pc[t] = "commit"
    /\ durable' = Commit(tables, durable)
    /\ pc' = [pc EXCEPT ![t] = "idle"]
    /\ returned' = [returned EXCEPT ![t] = Append(@, TRUE)]
    /\ last' = [op |-> "store_events", thread |-> t, result |-> TRUE]
    /\ UNCHANGED << conn, connOwner, tables, calls >>
    /\ UNCHANGED collectorVars
    /\ UNCHANGED managerVars
    /\ UNCHANGED << drainVars, controller >>

\* the store was initialized on the main thread; two collectors were started
InitThreads ==
    /\ conn = TRUE
    /\ connOwner = MainThread
    /\ tables = EmptyTables
    /\ durable = EmptyTables
    /\ CollectorInit(<< WatchedDir >>, << >>, DefaultEvents)
    /\ last = [op |-> "init"]

NextThreads ==
    \E t \in Threads : BeginStore(t) \/ InsertStep(t) \/ CommitStep(t)

SpecThreads == InitThreads /\ [][NextThreads]_vars

(* ------------- specification: store_events calls that can fail part-way *)
\* the INSERT or the commit of the call raises: the except clause logs it and
\* returns False; what the call inserted stays in the open transaction
RaiseStep(t) ==
    /\ pc[t] \in {"insert", "commit"}
    /\ pc' = [pc EXCEPT ![t] = "idle"]
    /\ returned' = [returned EXCEPT ![t] = Append(@, FALSE)]
    /\ last' = [op |-> "store_events", thread |-> t, result |-> FALSE]
    /\ UNCHANGED << conn, connOwner, tables, durable, calls >>
    /\ UNCHANGED collectorVars
    /\ UNCHANGED managerVars
    /\ UNCHANGED << drainVars, controller >>

NextWriters ==
    \E t \in Threads : BeginStore(t) \/ InsertStep(t) \/ CommitStep(t) \/ RaiseStep(t)

SpecWriters == InitThreads /\ [][NextWriters]_vars

(* --------------------------- specification: features and model artifacts *)
AllRows(t) == TotalRows(t) + Len(t["features"]) + Len(t["models"])

\* the limits a caller passes; the default of get_features, 100, is as good
\* as any limit that exceeds the rows there are
Limits == 0 .. MaxRows

StoreFeatures ==
    \E features \in FeatureValues, f \in FeatureTypes, failAt \in 0 .. 2 :
        /\ AllRows(tables) + 1 <= MaxRows
        /\ StoreCall("store_features", MainThread,
                     [features |-> features, feature_type |-> f],
                     store_features(Db, MainThread, clock, features, f, failAt))

GetFeatures ==
    \E f \in OptFeatureTypes, limit \in Limits : get_features(MainThread, f, limit)

StoreModel ==
    \E name \in {"x"}, version \in Versions, metrics \in Metrics, failAt \in 0 .. 2 :
        /\ AllRows(tables) + 1 <= MaxRows
        /\ StoreCall("store_model", MainThread,
                     [name |-> name, version |-> version, metrics |-> metrics],
                     store_model(Db, MainThread, clock, name, version, metrics, failAt))

GetModel ==
    \E name \in ModelNames, version \in OptVersions : get_model(MainThread, name, version)

StoreOneEvent ==
    \E events \in OneRecordBatches, failAt \in 0 .. 2 :
        /\ AllRows(tables) + 1 <= MaxRows
        /\ StoreEventsCall(MainThread, events, "file_events", failAt)

NextArtifacts ==
    \/ Initialize
    \/ StoreFeatures
    \/ GetFeatures
    \/ StoreModel
    \/ GetModel
    \/ StoreOneEvent

SpecArtifacts == Init /\ [][NextArtifacts]_vars

(* ---------------------------------------------------- CollectionManager *)
\* most entries of data_collection.collectors
MaxCollectors == 2

\* what an entry of collector_configs comes to in initialize:
\*   "ok"          enabled (or "enabled" absent), module and class found
\*   "disabled"    "enabled": false
\*   "no_module"   importlib.import_module raises ImportError
\*   "no_class"    the module has no class of the computed name
\*   "ctor_raises" the collector's constructor raises
\*   "malformed"   the sub-config is not a dictionary (None, a list, a string)
EntryKinds == {"ok", "disabled", "no_module", "no_class", "ctor_raises", "malformed"}

\* the configurations: collector names are the keys of a dict, hence distinct
CollectorConfigs ==
    UNION { [1 .. n -> EntryKinds] : n \in 0 .. MaxCollectors }
ConfigEntry(i, kind) == [name |-> i, kind |-> kind]

\* self.collectors[collector_name] = collector: a new key goes to the end of
\* the dict, an existing key keeps its place and gets the new instance
Register(reg, name) ==
    IF \E j \in 1 .. Len(reg) : reg[j].name = name
    THEN [j \in 1 .. Len(reg) |->
            IF reg[j].name = name THEN [name |-> name, is_running |-> FALSE] ELSE reg[j]]
    ELSE Append(reg, [name |-> name, is_running |-> FALSE])

\* the loop of initialize() from entry i on: the registry it leaves, and
\* whether an exception left the loop. collector_config.get("enabled", True)
\* stands outside the try statement.
RECURSIVE InitializeFrom(_, _, _)
InitializeFrom(cfgs, reg, i) ==
    IF i > Len(cfgs) THEN [collectors |-> reg, raised |-> FALSE]
    ELSE IF cfgs[i].kind = "malformed" THEN [collectors |-> reg, raised |-> TRUE]
    ELSE IF cfgs[i].kind = "ok" THEN InitializeFrom(cfgs, Register(reg, cfgs[i].name), i + 1)
    ELSE InitializeFrom(cfgs, reg, i + 1)

\* CollectionManager.initialize()
CollectionManager_initialize ==
    LET out == InitializeFrom(collector_configs, collectors, 1)
    IN  /\ collectors' = out.collectors
        /\ collector_configs' = collector_configs
        /\ UNCHANGED << drainVars, controller >>
        /\ UNCHANGED storeVars
        /\ UNCHANGED collectorVars
        /\ UNCHANGED threadVars
        /\ last' = [op |-> "CollectionManager.initialize",
                    raised |-> out.raised,
                    result |-> IF out.raised THEN None
                               ELSE Some(Len(out.collectors) > 0)]

\* what a managed collector's start() or stop() does when called: it
\* succeeds and returns True, returns False, or raises
Outcomes == {"ok", "false", "raise"}

\* collector.start() and collector.stop() of a managed collector
StartOne(c, outcome) == IF outcome = "ok" THEN [c EXCEPT !.is_running = TRUE] ELSE c
StopOne(c, outcome) == IF outcome = "ok" THEN [c EXCEPT !.is_running = FALSE] ELSE c

\* the loop of start_collectors() over the first n collectors: the registry
\* it leaves, the collectors it called in order, and its success flag
RECURSIVE start_collectorsMutantStopsAtFailure(_, _, _)
start_collectorsMutantStopsAtFailure(reg, outcomes, n) ==
    IF n = 0 THEN [collectors |-> reg, called |-> << >>, success |-> TRUE]
    ELSE LET sofar == start_collectorsMutantStopsAtFailure(reg, outcomes, n - 1)
         IN  IF ~sofar.success THEN sofar
             ELSE [collectors |-> [sofar.collectors EXCEPT ![n] = StartOne(@, outcomes[n])],
                   called |-> Append(sofar.called, reg[n].name),
                   success |-> sofar.success /\ outcomes[n] = "ok"]
RECURSIVE start_collectorsMutantRollsBack(_, _, _)
start_collectorsMutantRollsBack(reg, outcomes, n) ==
    IF n = 0 THEN [collectors |-> reg, called |-> << >>, success |-> TRUE]
    ELSE LET sofar == start_collectorsMutantRollsBack(reg, outcomes, n - 1)
             ok == sofar.success /\ outcomes[n] = "ok"
             started == [sofar.collectors EXCEPT ![n] = StartOne(@, outcomes[n])]
         IN  [collectors |-> IF ok THEN started
                             ELSE [j \in 1 .. Len(reg) |-> [started[j] EXCEPT !.is_running = FALSE]],
              called |-> Append(sofar.called, reg[n].name),
              success |-> ok]
RECURSIVE start_collectors(_, _, _)
start_collectors(reg, outcomes, n) ==
    IF n = 0 THEN [collectors |-> reg, called |-> << >>, success |-> TRUE]
    ELSE LET sofar == start_collectors(reg, outcomes, n - 1)
         IN  [collectors |-> [sofar.collectors EXCEPT ![n] = StartOne(@, outcomes[n])],
              called |-> Append(sofar.called, reg[n].name),
              success |-> sofar.success /\ outcomes[n] = "ok"]

\* the loop of stop_collectors() over the first n collectors
RECURSIVE stop_collectors(_, _, _)
stop_collectors(reg, outcomes, n) ==
    IF n = 0 THEN [collectors |-> reg, called |-> << >>, success |-> TRUE]
    ELSE LET sofar == stop_collectors(reg, outcomes, n - 1)
         IN  [collectors |-> [sofar.collectors EXCEPT ![n] = StopOne(@, outcomes[n])],
              called |-> Append(sofar.called, reg[n].name),
              success |-> sofar.success /\ outcomes[n] = "ok"]

\* a caller's start_collectors() or stop_collectors()
ManagerCall(op, outcomes, out) ==
    /\ collectors' = out.collectors
    /\ collector_configs' = collector_configs
    /\ UNCHANGED << drainVars, controller >>
    /\ UNCHANGED storeVars
    /\ UNCHANGED collectorVars
    /\ UNCHANGED threadVars
    /\ last' = [op |-> op, outcomes |-> outcomes, before |-> collectors,
                called |-> out.called, raised |-> FALSE, result |-> out.success]

StartCollectors ==
    \E outcomes \in [1 .. Len(collectors) -> Outcomes] :
        ManagerCall("start_collectors", outcomes,
                    start_collectors(collectors, outcomes, Len(collectors)))

StopCollectors ==
    \E outcomes \in [1 .. Len(collectors) -> Outcomes] :
        ManagerCall("stop_collectors", outcomes,
                    stop_collectors(collectors, outcomes, Len(collectors)))

(* ----------------------------- specification: the collection manager *)
\* CollectionManager.__init__ on a configuration
InitManager ==
    /\ StorageInit
    /\ paths = << WatchedDir >>
    /\ exclude_paths = << >>
    /\ monitored_events = DefaultEvents
    /\ storage = FALSE
    /\ is_running = FALSE
    /\ observers = << >>
    /\ handles = << >>
    /\ clock = 0
    /\ pc = [t \in Threads |-> "idle"]
    /\ calls = [t \in Threads |-> 0]
    /\ returned = [t \in Threads |-> << >>]
    /\ \E kinds \in CollectorConfigs :
          collector_configs = [i \in 1 .. Len(kinds) |-> ConfigEntry(i, kinds[i])]
    /\ collectors = << >>
    /\ stop_pc = "idle"
    /\ handling = {}
    /\ controller = ApplicationController(FALSE)
    /\ last = [op |-> "init"]

NextManager == CollectionManager_initialize \/ StartCollectors \/ StopCollectors

SpecManager == InitManager /\ [][NextManager]_vars

(* ------------------ specification: stop() while handlers are in flight *)
\* the notification an Observer delivers: a file was created in its directory
CreatedUnder(dir) ==
    [is_directory |-> FALSE, src_path |-> dir \o << "/a", ".txt" >>,
     dest_path |-> dir \o << "/a", ".txt" >>]

\* the thread of an Observer takes the next notification from its queue only
\* while the Observer is running: observer.stop() ends its dispatch loop
CanDispatchMutantAfterStop(h) == handles[h].state # "joined"
CanDispatch(h) == handles[h].state = "running"

\* the thread of Observer h enters the handler with a notification
HandlerBegin(h) ==
    /\ h \in 1 .. Len(handles)
    /\ CanDispatch(h)
    /\ h \notin handling
    /\ handling' = handling \cup {h}
    /\ UNCHANGED << stop_pc, controller, last >>
    /\ UNCHANGED storeVars
    /\ UNCHANGED collectorVars
    /\ UNCHANGED threadVars
    /\ UNCHANGED managerVars

\* on_created runs to its end on the thread of Observer h
HandlerFinish(h) ==
    /\ h \in handling
    /\ LET e == CreatedUnder(handles[h].path)
           out == on_created("obs1", e, Present, 0)
       IN  /\ tables' = out.tables
           /\ durable' = out.durable
           /\ clock' = out.clock
           /\ last' = [op |-> "on_created", thread |-> "obs1", event |-> e,
                       stat |-> Present, calls |-> out.calls]
    /\ handling' = handling \ {h}
    /\ UNCHANGED << conn, connOwner >>
    /\ UNCHANGED << paths, exclude_paths, monitored_events, storage,
                    is_running, observers, handles >>
    /\ UNCHANGED << stop_pc, controller >>
    /\ UNCHANGED threadVars
    /\ UNCHANGED managerVars

\* stop() up to its first observer.join(): on a collector that is not running
\* it returns True at once; on a running one it calls observer.stop() on every
\* Observer of the list and goes on to join them
StopEnter ==
    /\ stop_pc = "idle"
    /\ IF ~is_running
       THEN StopCall(0)
       ELSE /\ handles' = StopFirst(handles, observers, Len(observers))
            /\ stop_pc' = "joining"
            /\ UNCHANGED << paths, exclude_paths, monitored_events, storage,
                            is_running, observers, clock >>
            /\ UNCHANGED << handling, controller, last >>
            /\ UNCHANGED storeVars
            /\ UNCHANGED threadVars
            /\ UNCHANGED managerVars

\* the joins of stop(): observer.join() returns when the thread of the
\* Observer has left its handler and ended; then the list is emptied, the flag
\* cleared and True returned
StopJoin ==
    /\ stop_pc = "joining"
    /\ \A i \in 1 .. Len(observers) : observers[i] \notin handling
    /\ LET out == stop(Collector, 0)
       IN  /\ is_running' = out.is_running
           /\ observers' = out.observers
           /\ handles' = out.handles
           /\ last' = [op |-> "stop", was_running |-> is_running, result |-> out.result]
    /\ stop_pc' = "idle"
    /\ UNCHANGED << paths, exclude_paths, monitored_events, storage, clock >>
    /\ UNCHANGED << handling, controller >>
    /\ UNCHANGED storeVars
    /\ UNCHANGED threadVars
    /\ UNCHANGED managerVars

\* the store was initialized on the main thread; the collector was made from
\* its configuration
InitDrain ==
    /\ conn = TRUE
    /\ connOwner = MainThread
    /\ tables = EmptyTables
    /\ durable = EmptyTables
    /\ \E ps \in WatchLists : CollectorInit(ps, << >>, DefaultEvents)
    /\ last = [op |-> "init"]

\* the caller of start(), stop() and set_storage is one thread: it makes no
\* other call while it is inside stop()
NextDrain ==
    \/ stop_pc = "idle" /\ set_storage
    \/ stop_pc = "idle" /\ Start
    \/ StopEnter
    \/ StopJoin
    \/ \E h \in 1 .. MaxHandles : HandlerBegin(h)
    \/ \E h \in 1 .. MaxHandles : HandlerFinish(h)

SpecDrain == InitDrain /\ [][NextDrain]_vars

\* every handler that was entered runs to its end, and a join whose threads
\* have ended returns
SpecDrainFair ==
    /\ SpecDrain
    /\ \A h \in 1 .. MaxHandles : WF_vars(HandlerFinish(h))
    /\ WF_vars(StopJoin)

(* ------------------------------------------------ ApplicationController *)
\* what the storage comes to in ApplicationController.initialize:
\*   "ok"     the database is opened and its schema made
\*   "false"  sqlite3.connect raises: StorageManager.initialize logs the
\*            error and returns False
\*   "raise"  the constructor of StorageManager raises (os.makedirs)
StorageOutcomes == {"ok", "false", "raise"}

\* ApplicationController.initialize(), called by main(): the value that
\* self.storage.initialize() returns is not read; an exception is raised
\* again, and main() ends the process with sys.exit(1)
ApplicationController_initialize ==
    \E outcome \in StorageOutcomes :
        LET managed == outcome # "raise" /\ controller.enabled
            out == InitializeFrom(collector_configs, << >>, 1)
            raised == outcome = "raise" \/ (managed /\ out.raised)
        IN  /\ controller.pc = "constructed"
            /\ IF outcome = "ok"
               THEN /\ conn' = TRUE
                    /\ connOwner' = MainThread
                    /\ tables' = durable
                    /\ durable' = durable
               ELSE UNCHANGED storeVars
            /\ collectors' = IF managed THEN out.collectors ELSE collectors
            /\ controller' =
                  [controller EXCEPT
                      !.pc = IF raised THEN "exited" ELSE "initialized",
                      !.collection_manager = IF managed THEN "set" ELSE @]
            /\ UNCHANGED collector_configs
            /\ UNCHANGED collectorVars
            /\ UNCHANGED threadVars
            /\ UNCHANGED drainVars
            /\ last' = [op |-> "ApplicationController.initialize",
                        storage |-> outcome, raised |-> raised,
                        result |-> IF raised THEN None ELSE Some(TRUE)]

\* ApplicationController.start(), called by main() after initialize: reading
\* self.collection_manager raises AttributeError when initialize made none
ApplicationController_start ==
    /\ controller.pc = "initialized"
    /\ IF controller.collection_manager = "absent"
       THEN /\ controller' = [controller EXCEPT !.pc = "exited"]
            /\ collectors' = collectors
            /\ last' = [op |-> "ApplicationController.start", raised |-> TRUE,
                        result |-> None]
       ELSE \E outcomes \in [1 .. Len(collectors) -> Outcomes] :
               /\ collectors' =
                     start_collectors(collectors, outcomes, Len(collectors)).collectors
               /\ controller' = [controller EXCEPT !.pc = "started", !.running = TRUE]
               /\ last' = [op |-> "ApplicationController.start", raised |-> FALSE,
                           result |-> Some(TRUE)]
    /\ UNCHANGED collector_configs
    /\ UNCHANGED storeVars
    /\ UNCHANGED collectorVars
    /\ UNCHANGED threadVars
    /\ UNCHANGED drainVars

\* ApplicationController.stop(), called by main() when the application that
\* was started ends
ApplicationController_stop ==
    /\ controller.pc = "started"
    /\ IF controller.collection_manager = "absent"
       THEN /\ controller' = [controller EXCEPT !.pc = "exited"]
            /\ collectors' = collectors
            /\ last' = [op |-> "ApplicationController.stop", raised |-> TRUE,
                        result |-> None]
       ELSE \E outcomes \in [1 .. Len(collectors) -> Outcomes] :
               /\ collectors' =
                     stop_collectors(collectors, outcomes, Len(collectors)).collectors
               /\ controller' = [controller EXCEPT !.pc = "stopped", !.running = FALSE]
               /\ last' = [op |-> "ApplicationController.stop", raised |-> FALSE,
                           result |-> Some(TRUE)]
    /\ UNCHANGED collector_configs
    /\ UNCHANGED storeVars
    /\ UNCHANGED collectorVars
    /\ UNCHANGED threadVars
    /\ UNCHANGED drainVars

(* ------------------------------------- specification: the controller *)
\* ApplicationController(config_path) on a configuration
InitController ==
    /\ StorageInit
    /\ paths = << WatchedDir >>
    /\ exclude_paths = << >>
    /\ monitored_events = DefaultEvents
    /\ storage = FALSE
    /\ is_running = FALSE
    /\ observers = << >>
    /\ handles = << >>
    /\ clock = 0
    /\ pc = [t \in Threads |-> "idle"]
    /\ calls = [t \in Threads |-> 0]
    /\ returned = [t \in Threads |-> << >>]
    /\ \E kinds \in CollectorConfigs :
          collector_configs = [i \in 1 .. Len(kinds) |-> ConfigEntry(i, kinds[i])]
    /\ collectors = << >>
    /\ stop_pc = "idle"
    /\ handling = {}
    /\ \E enabled \in BOOLEAN : controller = ApplicationController(enabled)
    /\ last = [op |-> "init"]

NextController ==
    \/ ApplicationController_initialize
    \/ ApplicationController_start
    \/ ApplicationController_stop

SpecController == InitController /\ [][NextController]_vars

(* ------------ specification: a store whose initialize has not succeeded *)
\* initialize() in which sqlite3.connect raises: it logs the error and
\* returns False, and conn stays None
InitializeFails == initialize(MainThread, FALSE)

\* the calls, made on the thread of the Controller or, by a handler, on the
\* thread of an Observer
StoreEventsOn(t) ==
    \E k \in Kinds \cup {UnknownKind} :
        \E events \in Batches(k) :
            /\ k \in Kinds => TotalRows(tables) + Len(events) <= MaxRows
            /\ StoreEventsCall(t, events, k, 0)

GetEventsOn(t) ==
    \E k \in Kinds \cup {UnknownKind}, start_time \in OptTimestamps,
       end_time \in OptTimestamps :
        get_events(t, k, start_time, end_time)

StoreFeaturesOn(t) ==
    \E features \in FeatureValues, f \in FeatureTypes :
        /\ AllRows(tables) + 1 <= MaxRows
        /\ StoreCall("store_features", t,
                     [features |-> features, feature_type |-> f],
                     store_features(Db, t, clock, features, f, 0))

GetFeaturesOn(t) ==
    \E f \in OptFeatureTypes, limit \in Limits : get_features(t, f, limit)

StoreModelOn(t) ==
    \E name \in ModelNames, version \in Versions, metrics \in Metrics :
        /\ AllRows(tables) + 1 <= MaxRows
        /\ StoreCall("store_model", t,
                     [name |-> name, version |-> version, metrics |-> metrics],
                     store_model(Db, t, clock, name, version, metrics, 0))

GetModelOn(t) ==
    \E name \in ModelNames, version \in OptVersions : get_model(t, name, version)

NextUnopened ==
    \/ InitializeFails
    \/ \E t \in Threads : StoreEventsOn(t)
    \/ \E t \in Threads : GetEventsOn(t)
    \/ \E t \in Threads : StoreFeaturesOn(t)
    \/ \E t \in Threads : GetFeaturesOn(t)
    \/ \E t \in Threads : StoreModelOn(t)
    \/ \E t \in Threads : GetModelOn(t)

SpecUnopened == Init /\ [][NextUnopened]_vars

(* ------------------------------------------------------------- claims *)
\* a returned row without the id column the store added
StripId(row) == [f \in (DOMAIN row) \ {"id"} |-> row[f]]
StripIds(rows) == [i \in 1 .. Len(rows) |-> StripId(rows[i])]

\* res holds the records of batch, each once, in some order
SameRecords(batch, res) ==
    /\ Len(res) = Len(batch)
    /\ \E p \in [1 .. Len(batch) -> 1 .. Len(batch)] :
          /\ \A i, j \in 1 .. Len(batch) : i # j => p[i] # p[j]
          /\ \A i \in 1 .. Len(batch) : StripId(res[i]) = batch[p[i]]

\* C1: store_events is atomic per batch. A call that returns failure commits
\* nothing, then or later: a call that returns success makes exactly its own
\* batch durable, and no row of an earlier failed call with it.
C1_StoreEventsAtomic ==
    [][ last'.op = "store_events" =>
          IF last'.result
          THEN \A k \in Kinds :
                  StripIds(durable'[k]) =
                      StripIds(durable[k]) \o
                          (IF k = last'.event_type THEN last'.events ELSE << >>)
          ELSE durable' = durable ]_vars

\* C2: a batch stored by a successful store_events into an empty table comes
\* back from get_events without bounds: the same records, each once, every
\* field equal, in ascending timestamp order.
C2_RoundTrip ==
    [][ ( /\ last.op = "store_events"
          /\ last.result
          /\ Len(tables[last.event_type]) = Len(last.events)
          /\ last'.op = "get_events"
          /\ last'.event_type = last.event_type
          /\ last'.start_time = None
          /\ last'.end_time = None )
        => ( /\ SameRecords(last.events, last'.result)
             /\ IsAscending(last'.result) ) ]_vars

\* a batch of two stored out of timestamp order was read back reordered
C2_Witness ==
    /\ last.op = "get_events"
    /\ last.event_type \in Kinds
    /\ last.start_time = None
    /\ last.end_time = None
    /\ Len(last.result) = 2
    /\ tables[last.event_type] = durable[last.event_type]
    /\ Len(tables[last.event_type]) = 2
    /\ tables[last.event_type][1].timestamp > tables[last.event_type][2].timestamp
    /\ last.result[1].id = 2
    /\ last.result[2].id = 1

\* the rows the claimed contract selects: a bound that is given is applied
InRange(row, start_time, end_time) ==
    /\ start_time # None => row.timestamp >= start_time[1]
    /\ end_time # None => row.timestamp <= end_time[1]

\* C3: get_events returns exactly the rows with start_time <= timestamp <=
\* end_time, a bound that is given being applied whatever its value (0
\* included), in ascending timestamp order.
C3_RangeInclusive ==
    (last.op = "get_events" /\ conn /\ last.event_type \in Kinds) =>
        /\ IsAscending(last.result)
        /\ \A r \in { last.result[i] : i \in 1 .. Len(last.result) } :
              InRange(r, last.start_time, last.end_time)
        /\ Len(last.result) =
              Len(SelectSeq(tables[last.event_type],
                            LAMBDA r : InRange(r, last.start_time, last.end_time)))

\* C4: with both bounds given and start_time > end_time the result is empty.
C4_EmptyWhenReversed ==
    ( /\ last.op = "get_events"
      /\ last.start_time # None
      /\ last.end_time # None
      /\ last.start_time[1] > last.end_time[1] )
    => last.result = << >>

\* C7: when start() returns False no Observer of the collector is still
\* running, and none is still held in its observers list.
C7_FailedStartUnwinds ==
    (last.op = "start" /\ ~last.result) =>
        /\ observers = << >>
        /\ \A h \in 1 .. Len(handles) : handles[h].state # "running"

\* C8: when stop() on a running collector returns True, every Observer the
\* collector started has been stopped and joined, the observers list is empty
\* and the collector is stopped.
C8_StopJoinsAll ==
    (last.op = "stop" /\ last.was_running /\ last.result) =>
        /\ observers = << >>
        /\ ~is_running
        /\ \A h \in 1 .. Len(handles) : handles[h].state = "joined"

\* a running collector with an Observer per path was stopped
C8_Witness ==
    /\ last.op = "stop"
    /\ last.was_running
    /\ last.result
    /\ Len(paths) = 2
    /\ Len(handles) >= 2

\* C9: stop() on a stopped collector returns True and changes neither the
\* running flag, nor the observers list, nor any Observer.
C9_StopWhenStopped ==
    [][ (last'.op = "stop" /\ ~is_running) =>
          /\ last'.result
          /\ is_running' = is_running
          /\ observers' = observers
          /\ handles' = handles ]_vars

\* stop() was called on a collector that was never started
C9_Witness ==
    /\ last.op = "stop"
    /\ ~last.was_running
    /\ last.result
    /\ handles = << >>

\* C10: start() on a running collector returns True and creates no Observer:
\* flag, observers list and Observers are unchanged, so the number of live
\* Observers stays what it was.
C10_StartWhenRunning ==
    [][ (last'.op = "start" /\ is_running) =>
          /\ last'.result
          /\ is_running' = is_running
          /\ observers' = observers
          /\ handles' = handles
          /\ Cardinality(LiveHandles(handles')) = Cardinality(LiveHandles(handles)) ]_vars

\* start() was called on a running collector that holds one Observer per path
C10_Witness ==
    /\ last.op = "start"
    /\ last.was_running
    /\ last.result
    /\ is_running
    /\ Cardinality(LiveHandles(handles)) = Len(paths)
    /\ Len(observers) = Len(paths)

\* what a handler handed to store_events, call by call
Handed(cs) ==
    [i \in 1 .. Len(cs) |->
        [operation |-> cs[i].events[1].operation, path |-> cs[i].events[1].path]]

\* a delete at the source then a create at the destination, each left out
\* when its own path is excluded
ExpectedOfMove(e) ==
    (IF is_path_excluded(e.src_path) THEN << >>
     ELSE << [operation |-> "delete", path |-> e.src_path] >>)
    \o
    (IF is_path_excluded(e.dest_path) THEN << >>
     ELSE << [operation |-> "create", path |-> e.dest_path] >>)

\* a move of a file, handled with a sink bound and the destination readable
MoveHandled ==
    /\ last.op = "on_moved"
    /\ ~last.event.is_directory
    /\ storage
    /\ ~(last.stat.exists /\ last.stat.raises)

\* C5 as claimed: under every configuration a move of a file yields a delete
\* at the source then a create at the destination, each filtered by exclusion
\* on its own.
C5_MoveAlwaysSplits ==
    MoveHandled => Handed(last.calls) = ExpectedOfMove(last.event)

\* C5: when "move" is among the monitored events a move of a file yields a
\* delete at the source then a create at the destination, each a one-record
\* batch of kind file_events and each filtered by exclusion on its own; when
\* it is not (the default), a move yields nothing.
C5_MoveSplitsWhenMonitored ==
    MoveHandled =>
        /\ Handed(last.calls) =
              IF "move" \in monitored_events THEN ExpectedOfMove(last.event) ELSE << >>
        /\ \A i \in 1 .. Len(last.calls) :
              Len(last.calls[i].events) = 1 /\ last.calls[i].event_type = "file_events"

\* a file was moved out of the excluded directory: only the create was handed on
C5_Witness ==
    /\ MoveHandled
    /\ "move" \in monitored_events
    /\ last.event.src_path = IgnoredFile
    /\ last.event.dest_path = RenamedFile
    /\ Len(last.calls) = 1
    /\ last.calls[1].events[1].operation = "create"
    /\ last.calls[1].events[1].path = RenamedFile

\* C6: once every store_events call of the observer threads has returned, the
\* store holds one row for each call made: none was lost, none rejected.
C6_NoInsertLost ==
    ( /\ \A t \in Threads : pc[t] = "idle"
      /\ \A t \in ObserverThreads : calls[t] = MaxCalls )
    => /\ Len(tables["file_events"]) = calls["main"] + calls["obs1"] + calls["obs2"]
       /\ \A t \in Threads : \A i \in 1 .. Len(returned[t]) : returned[t][i]

\* C11 as claimed: get_model(name) without a version returns a row of that
\* name with the largest created_at; get_model(name, version) returns a row
\* of that name and that version; each returns not-found exactly when no
\* such row is stored.
C11_GetModelSelects ==
    last.op = "get_model" =>
        LET rows == tables["models"]
            named == { i \in 1 .. Len(rows) : rows[i].name = last.name }
            asked == IF last.version = None THEN named
                     ELSE { i \in named : rows[i].version = last.version[1] }
        IN  IF asked = {} THEN last.result = None
            ELSE /\ last.result # None
                 /\ last.result[1].name = last.name
                 /\ last.version # None => last.result[1].version = last.version[1]
                 /\ last.version = None =>
                       \A i \in named : rows[i].created_at <= last.result[1].created_at

\* the names of the entries of the configuration that are enabled and whose
\* module, class and constructor are all good, in configuration order
Resolvable(cfgs) ==
    LET good == SelectSeq(cfgs, LAMBDA c : c.kind = "ok")
    IN  [i \in 1 .. Len(good) |-> good[i].name]
NamesOf(reg) == [i \in 1 .. Len(reg) |-> reg[i].name]

\* C12 as claimed: after initialize, for every configuration and every
\* position of a failing entry in it, the registry holds exactly the enabled
\* collectors that resolve and construct; no failing entry keeps another
\* from being registered.
C12_FailingEntrySkipped ==
    last.op = "CollectionManager.initialize" =>
        /\ ~last.raised
        /\ NamesOf(collectors) = Resolvable(collector_configs)

\* C13 as claimed: initialize returns true exactly when at least one
\* collector was instantiated, and false, with an empty registry, when none
\* was.
C13_InitializeResult ==
    last.op = "CollectionManager.initialize" =>
        /\ last.result # None
        /\ last.result[1] = (Resolvable(collector_configs) # << >>)
        /\ Resolvable(collector_configs) = << >> => collectors = << >>

\* C14: start_collectors and stop_collectors call every managed collector
\* once, in order, also after one of them returned failure or raised; they
\* return true exactly when every single call returned success, and raise
\* nothing.
C14_EveryCollectorCalledOnce ==
    last.op \in {"start_collectors", "stop_collectors"} =>
        /\ last.called = NamesOf(last.before)
        /\ ~last.raised
        /\ last.result = (\A i \in 1 .. Len(last.outcomes) : last.outcomes[i] = "ok")

\* start_collectors went on to the second collector after the first one raised
C14_Witness ==
    /\ last.op = "start_collectors"
    /\ Len(last.before) = 2
    /\ last.outcomes[1] = "raise"
    /\ last.outcomes[2] = "ok"
    /\ Len(last.called) = 2
    /\ ~last.result
    /\ collectors[2].is_running

\* C15: when start_collectors returns false, every collector whose own start
\* succeeded is Running, and no collector that was Running before has been
\* stopped.
C15_PartialStartKept ==
    (last.op = "start_collectors" /\ ~last.result) =>
        \A i \in 1 .. Len(collectors) :
            (last.outcomes[i] = "ok" \/ last.before[i].is_running)
                => collectors[i].is_running

\* the first collector started, the second failed: the first is left Running
C15_Witness ==
    /\ last.op = "start_collectors"
    /\ ~last.result
    /\ Len(collectors) = 2
    /\ ~last.before[1].is_running
    /\ last.outcomes[1] = "ok"
    /\ last.outcomes[2] = "false"
    /\ collectors[1].is_running
    /\ ~collectors[2].is_running

\* C16: store_events under an event kind that is none of the three known
\* ones returns failure and changes no table, neither what the connection
\* sees nor what is durable, whatever the batch holds.
C16_UnknownKindNoOp ==
    [][ (last'.op = "store_events" /\ last'.event_type \notin Kinds)
        => (~last'.result /\ tables' = tables /\ durable' = durable) ]_vars

\* a one-record batch of unknown kind was refused while an earlier failed
\* call's row was pending on the connection
C16_Witness ==
    /\ last.op = "store_events"
    /\ last.event_type = UnknownKind
    /\ Len(last.events) = 1
    /\ conn
    /\ ~last.result
    /\ tables # durable

\* the path string has a configured excluded path as a literal string prefix
HasExcludedPrefix(path) ==
    \E i \in 1 .. Len(exclude_paths) :
        /\ Len(exclude_paths[i]) <= Len(path)
        /\ \A j \in 1 .. Len(exclude_paths[i]) : path[j] = exclude_paths[i][j]

\* a create, modify or delete notification for a file, its operation
\* monitored, handled with a sink bound and the file's stat not raising
FileNotificationHandled ==
    /\ last.op \in {"on_created", "on_modified", "on_deleted"}
    /\ ~last.event.is_directory
    /\ last.op = "on_modified" => "modify" \in monitored_events
    /\ last.op = "on_deleted" => "delete" \in monitored_events
    /\ storage
    /\ ~(last.stat.exists /\ last.stat.raises)

OperationOf(op) ==
    CASE op = "on_created" -> "create"
      [] op = "on_modified" -> "modify"
      [] op = "on_deleted" -> "delete"

\* C17: a file notification is discarded exactly when its path has an
\* excluded path as a literal string prefix, the sibling /w/ignore2/d.txt of
\* the excluded /w/ignore included; otherwise it yields one record carrying
\* its operation, path, extension and size, which is the row stored when the
\* store accepts it.
C17_ExcludedByPrefix ==
    FileNotificationHandled =>
        IF HasExcludedPrefix(last.event.src_path)
        THEN last.calls = << >>
        ELSE /\ Len(last.calls) = 1
             /\ Len(last.calls[1].events) = 1
             /\ LET rec == last.calls[1].events[1]
                    rows == tables["file_events"]
                IN  /\ rec.operation = OperationOf(last.op)
                    /\ rec.path = last.event.src_path
                    /\ rec.file_type = FileType(rec.path)
                    /\ rec.size = IF last.op # "on_deleted" /\ last.stat.exists
                                  THEN last.stat.size ELSE 0
                    /\ last.calls[1].result =>
                          (rows # << >> /\ StripId(rows[Len(rows)]) = rec)

\* a create of /w/ignore2/d.txt was discarded under the exclusion of /w/ignore
C17_Witness ==
    /\ FileNotificationHandled
    /\ last.op = "on_created"
    /\ last.event.src_path = SiblingFile
    /\ exclude_paths = << IgnoreDir >>
    /\ last.calls = << >>

\* C18 as claimed: get_features returns records in descending timestamp
\* order, those of the requested type only when a type is given and those of
\* every type when none is, and never more than limit of them.
C18_GetFeaturesSelects ==
    last.op = "get_features" =>
        /\ IsDescending(last.result)
        /\ last.feature_type # None =>
              \A i \in 1 .. Len(last.result) :
                  last.result[i].feature_type = last.feature_type[1]
        /\ Len(last.result) <= last.limit
        /\ last.feature_type = None =>
              Len(last.result) =
                  IF last.limit < Len(tables["features"])
                  THEN last.limit ELSE Len(tables["features"])

\* C19: the store is append-only. Every step of store_events, store_features,
\* store_model, a get_* call or initialize leaves each committed row in its
\* table, in its place and with its field values, durable and visible to the
\* connection.
C19_AppendOnly ==
    [][ \A k \in Tables :
            /\ IsPrefix(durable[k], durable'[k])
            /\ IsPrefix(durable[k], tables'[k]) ]_vars

\* store_model under a name and version already stored added a second row
C19_Witness ==
    /\ last.op = "store_model"
    /\ last.result
    /\ Len(durable["models"]) = 2
    /\ durable["models"][1].name = durable["models"][2].name
    /\ durable["models"][1].version = durable["models"][2].version
    /\ durable["models"][1].id = 1
    /\ durable["models"][2].id = 2

\* C20 as claimed: the insert-and-commit sections of two store_events calls
\* never overlap, and the commit of a call makes durable the row of that call
\* only, never a row of a call in progress or of a call that failed.
C20_WritesSerialized ==
    [][ /\ \A t, u \in Threads :
              (pc'[t] # "idle" /\ pc'[u] # "idle") => t = u
        /\ \A t \in Threads :
              (Len(returned'[t]) > Len(returned[t]) /\ last'.result)
                  => Len(durable'["file_events"]) = Len(durable["file_events"]) + 1
      ]_vars

HandlerOps == {"on_created", "on_modified", "on_deleted", "on_moved"}

\* the operation a handler is notified of
NotifiedOperation(op) ==
    CASE op = "on_created" -> "create"
      [] op = "on_modified" -> "modify"
      [] op = "on_deleted" -> "delete"
      [] op = "on_moved" -> "move"

\* the store_events calls of a handler that returned success
Successes(cs) == { i \in 1 .. Len(cs) : cs[i].result }

\* C23 as claimed: a handler calls store_events at most once for each record
\* it builds (a move builds two), and only the records of calls that returned
\* success ever become durable rows: a record whose call failed does not.
C23_NoRetryNoLateRow ==
    [][ last'.op \in HandlerOps =>
          /\ Len(last'.calls) <= (IF last'.op = "on_moved" THEN 2 ELSE 1)
          /\ \A i, j \in 1 .. Len(last'.calls) :
                i # j => last'.calls[i].events # last'.calls[j].events
          /\ Len(durable'["file_events"]) =
                Len(durable["file_events"]) + Cardinality(Successes(last'.calls)) ]_vars

\* C25 as claimed: a notification whose operation is not monitored hands no
\* record to the store, for create, modify, delete and move alike, and every
\* record handed over carries an operation that is monitored.
C25_OnlyMonitored ==
    last.op \in HandlerOps =>
        /\ NotifiedOperation(last.op) \notin monitored_events => last.calls = << >>
        /\ \A i \in 1 .. Len(last.calls) :
              last.calls[i].events[1].operation \in monitored_events

\* the notification is for a file and no path of it is excluded
PassesFilters(op, e) ==
    /\ ~e.is_directory
    /\ ~HasExcludedPrefix(e.src_path)
    /\ op = "on_moved" => ~HasExcludedPrefix(e.dest_path)

\* the handler goes past its own test of the monitored events (on_created
\* makes none)
PassesMonitored(op) ==
    op = "on_created" \/ NotifiedOperation(op) \in monitored_events

\* every call carries one record, under the kind file_events
OneRecordCalls(cs) ==
    \A i \in 1 .. Len(cs) :
        Len(cs[i].events) = 1 /\ cs[i].event_type = "file_events"

RecordsBuilt(op, e, stat) ==
    LET statFails == stat.exists /\ stat.raises
        one(path, operation) ==
            IF HasExcludedPrefix(path) \/ (operation # "delete" /\ statFails)
            THEN 0 ELSE 1
    IN  IF op = "on_moved"
        THEN one(e.src_path, "delete") + one(e.dest_path, "create")
        ELSE one(e.src_path, NotifiedOperation(op))

C27_DirectoriesDiscarded ==
    [][ (last'.op \in HandlerOps /\ last'.event.is_directory)
        => (last'.calls = << >> /\ tables' = tables /\ durable' = durable) ]_vars

\* a directory was moved while moves were monitored and a sink was bound
C27_Witness ==
    /\ last.op = "on_moved"
    /\ last.event.is_directory
    /\ "move" \in monitored_events
    /\ storage
    /\ last.calls = << >>

\* C28: a notification handled with no sink bound makes no store call and
\* changes neither the store nor the collector; with a sink bound, a
\* notification for a file that passes the filters makes its store call, and
\* the record is a row of the table when the call returns success.
C28_UnboundSinkDrops ==
    [][ last'.op \in HandlerOps =>
          /\ ~storage =>
                /\ last'.calls = << >>
                /\ tables' = tables
                /\ durable' = durable
                /\ storage' = storage
                /\ << is_running', observers', handles' >> = << is_running, observers, handles >>
          /\ ( /\ storage
               /\ last'.op # "on_moved"
               /\ PassesFilters(last'.op, last'.event)
               /\ PassesMonitored(last'.op)
               /\ ~(last'.stat.exists /\ last'.stat.raises) ) =>
                /\ Len(last'.calls) = 1
                /\ last'.calls[1].result =>
                      LET rows == tables'["file_events"]
                      IN  /\ Len(rows) = Len(tables["file_events"]) + 1
                          /\ StripId(rows[Len(rows)]) = last'.calls[1].events[1] ]_vars

\* a create of a file that passes the filters was dropped for want of a sink
C28_Witness ==
    /\ last.op = "on_created"
    /\ ~last.event.is_directory
    /\ last.event.src_path = PlainFile
    /\ last.stat = Present
    /\ ~storage
    /\ last.calls = << >>
    /\ clock = 1

\* C29: a record with operation delete, the delete half of a move included,
\* carries size 0 whatever is at the path; a create or modify record carries
\* the size stat gave at notification time (0 when the file was gone by then).
C29_SizeOfRecord ==
    last.op \in HandlerOps =>
        \A i \in 1 .. Len(last.calls) :
            LET rec == last.calls[i].events[1]
            IN  /\ rec.operation = "delete" => rec.size = 0
                /\ rec.operation \in {"create", "modify"} =>
                      rec.size = IF last.stat.exists THEN last.stat.size ELSE 0

\* a delete was recorded with size 0 while a file of 10 bytes was at the path
C29_Witness ==
    /\ last.op = "on_deleted"
    /\ last.stat = Present
    /\ Len(last.calls) = 1
    /\ last.calls[1].events[1].operation = "delete"
    /\ last.calls[1].events[1].size = 0

\* the live Observers that watch the path p
LiveHandlesOf(p) == { h \in LiveHandles(handles) : handles[h].path = p }

\* C30 as claimed: after any sequence of start() and stop() calls the flag
\* and the handles agree: a Running collector holds exactly one live Observer
\* for each configured path, a Stopped one holds none, and no path ever has
\* more than one live Observer.
C30_FlagAndHandlesAgree ==
    /\ is_running =>
          \A i \in 1 .. Len(paths) : Cardinality(LiveHandlesOf(paths[i])) = 1
    /\ ~is_running => LiveHandles(handles) = {}
    /\ \A i \in 1 .. Len(paths) : Cardinality(LiveHandlesOf(paths[i])) <= 1

\* stop() returned in this step
StopReturns == last'.op = "stop" /\ stop_pc' = "idle" /\ handling' = handling

\* C21 as claimed: when stop() returns no handler is in flight any more, and
\* after stop() returned True no handler hands a record to the store until
\* the next start().
C21_StopDrainsHandlers ==
    [][ /\ StopReturns => handling' = {}
        /\ (last.op = "stop" /\ last.result) =>
              ~(last'.op \in HandlerOps /\ last'.calls # << >>) ]_vars

\* C22: stop() on a Running collector returns: once it waits in its joins,
\* with every handler in flight running to its end, it leaves them.
C22_StopReturns == (stop_pc = "joining") ~> (stop_pc = "idle")

\* stop() waits in a join while the thread of an Observer is in its handler
C22_Witness ==
    /\ stop_pc = "joining"
    /\ is_running
    /\ \E i \in 1 .. Len(observers) : observers[i] \in handling

\* C24 as claimed: when the storage cannot be opened, initialize of the
\* Controller does not complete, the Controller is never started, and no
\* collector runs on a store whose connection is not open.
C24_StorageFailureIsFatal ==
    /\ controller.pc \in {"initialized", "started", "stopped"} => conn
    /\ (\E i \in 1 .. Len(collectors) : collectors[i].is_running) => conn

\* the configuration has no collector entry that is not a dictionary
WellFormedConfig ==
    \A i \in 1 .. Len(collector_configs) : collector_configs[i].kind # "malformed"

\* C31 as claimed, for the well-formed configurations and a storage whose
\* constructor does not raise: initialize, start and stop of the Controller
\* do not raise, also when data collection is disabled; then no Collection
\* Manager is made and start and stop touch no collector.
C31_LifecycleCompletes ==
    /\ ( /\ last.op \in {"ApplicationController.initialize",
                         "ApplicationController.start",
                         "ApplicationController.stop"}
         /\ WellFormedConfig
         /\ (last.op = "ApplicationController.initialize" => last.storage # "raise") )
       => (~last.raised /\ controller.pc # "exited")
    /\ ~controller.enabled => collectors = << >>

\* what each retrieval call returns when it finds nothing
EmptyResult(op) == IF op = "get_model" THEN None ELSE << >>

\* C32: on a store with no open connection every store_events,
\* store_features and store_model call returns False, get_events and
\* get_features return the empty list, get_model returns None, and the call
\* leaves the store as it was.
C32_UnopenedStoreRefuses ==
    [][ (~conn /\ last'.op \in {"store_events", "store_features", "store_model",
                                "get_events", "get_features", "get_model"}) =>
          /\ conn' = conn
          /\ connOwner' = connOwner
          /\ tables' = tables
          /\ durable' = durable
          /\ last'.op \in {"store_events", "store_features", "store_model"} =>
                last'.result = FALSE
          /\ last'.op \in {"get_events", "get_features", "get_model"} =>
                last'.result = EmptyResult(last'.op) ]_vars

\* store_model was refused by a store that was never opened
C32_Witness ==
    /\ ~conn
    /\ last.op = "store_model"
    /\ last.result = FALSE
    /\ tables = EmptyTables
    /\ durable = EmptyTables

====
